---------------------------- MODULE Spec2Model ----------------------------
(***************************************************************************)
(* A model of projects/00_data_import_and_misc_work/import_data_fbref.py.  *)
(*                                                                         *)
(* A DataFrame is a record [cols, rows]: cols is the sequence of column    *)
(* names (pandas allows a name to occur twice after a suffixed merge) and  *)
(* rows is a sequence of rows, each a sequence of cell values aligned with *)
(* cols.  Every cell is a string; NA stands for a missing value (NaN or    *)
(* None), which pandas treats as one value when it compares keys in        *)
(* drop_duplicates and merge.                                              *)
(*                                                                         *)
(* Specifications:                                                         *)
(*   Spec          the __main__ merge loop, following one accumulator      *)
(*   SpecKeys      get_merge_keys on every layout of the key columns       *)
(*   SpecSafeMerge safe_merge on bounded accumulators, tables and keys     *)
(*   SpecWarn      safe_merge on tables large enough for the row warning   *)
(*   SpecEnrich    add_team_id_to_player_df                                *)
(*   SpecScrape    scrape_all_stats_with_ids and scrape_stats_with_ids     *)
(***************************************************************************)
EXTENDS Integers, Sequences, FiniteSets, TLC

VARIABLES
    \* ---- the __main__ merge loop (lines 480-506)
    side,        \* which accumulator is followed: "squad", "opponent", "player"
    idx,         \* number of statistic groups of fbref_dict iterated so far
    cats,        \* the tables stat_data[side] of those groups, in order
    acc,         \* teaminfo_for_df / teaminfo_against_df / playerinfo_df
    usedKeys,    \* the merge keys of the latest safe_merge call
    warnings,    \* number of "Warning: Merge increased rows" lines printed
    \* ---- one call of a helper function
    called,      \* "" before the call, then the name of the function called
    left_df, right_df, merge_keys, data_type,    \* its arguments
    rows_data,
    ret,         \* its return value
    \* ---- FBrefScraperWithIDs
    sc

mainVars   == <<side, idx, cats, acc, usedKeys, warnings>>
callVars   == <<called, left_df, right_df, merge_keys, data_type, rows_data, ret>>
vars       == <<side, idx, cats, acc, usedKeys, warnings,
                called, left_df, right_df, merge_keys, data_type, rows_data, ret,
                sc>>

----------------------------------------------------------------------------
\* Bounds of the model.

\* Largest number of rows of a table drawn as an input.
MaxRows == 2
\* Largest number of statistic groups iterated by the merge loop.
MaxCats == 2
\* Largest number of rows of a player table and of entries of its
\* association list given to add_team_id_to_player_df.
MaxAssoc == 3
\* Number of statistic categories scrape_all_stats_with_ids iterates.
NumCats == 2
\* Longest time one call of get_valid_seasons or _get_soup takes; a page
\* fetch takes at least one unit.
MaxDur == 1
\* self.wait_time of the scraper, in the same unit.
WaitTime == 2

----------------------------------------------------------------------------
\* DataFrames.

\* A missing cell (NaN, None).
NA == "NA"

\* pd.DataFrame()
EmptyDF == [cols |-> <<>>, rows |-> <<>>]

\* df.empty: no rows or no columns.
IsEmpty(df) == Len(df.rows) = 0 \/ Len(df.cols) = 0

\* len(df)
NRows(df) == Len(df.rows)

\* c in df.columns
HasCol(df, c) == \E i \in 1..Len(df.cols) : df.cols[i] = c

\* The position of the (first) column named c.
ColIdx(df, c) ==
    CHOOSE i \in 1..Len(df.cols) :
        df.cols[i] = c /\ \A j \in 1..(i - 1) : df.cols[j] # c

\* df[c][i], and NA when df has no column c.
Cell(df, i, c) == IF HasCol(df, c) THEN df.rows[i][ColIdx(df, c)] ELSE NA

\* The values of the key columns of row i.
KeyOf(df, i, keys) == [k \in 1..Len(keys) |-> df.rows[i][ColIdx(df, keys[k])]]

Indices(n) == [i \in 1..n |-> i]

InSeq(x, s) == \E i \in 1..Len(s) : s[i] = x

RECURSIVE Flatten(_)
Flatten(ss) == IF ss = <<>> THEN <<>> ELSE Head(ss) \o Flatten(Tail(ss))

\* df[name] = values: overwrite the column, or append it as the last one.
SetColumn(df, name, values) ==
    IF HasCol(df, name)
    THEN [cols |-> df.cols,
          rows |-> [i \in 1..Len(df.rows) |->
                      [df.rows[i] EXCEPT ![ColIdx(df, name)] = values[i]]]]
    ELSE [cols |-> Append(df.cols, name),
          rows |-> [i \in 1..Len(df.rows) |-> Append(df.rows[i], values[i])]]

----------------------------------------------------------------------------
\* get_merge_keys (lines 280-307).

IfCol(df, c) == IF HasCol(df, c) THEN <<c>> ELSE <<>>

\* get_merge_keys with the two team branches in the wrong order.
get_merge_keys_swapped(df, kind) ==
    IF kind = "team"
    THEN IF HasCol(df, "Squad") THEN <<"Squad">>
         ELSE IF HasCol(df, "Team ID") THEN <<"Team ID">>
         ELSE <<>>
    ELSE IF kind = "player"
    THEN LET keys == IfCol(df, "Player ID") \o IfCol(df, "Team ID")
         IN  IF keys = <<>>
             THEN IfCol(df, "Player") \o IfCol(df, "Squad")
             ELSE keys
    ELSE <<>>

get_merge_keys(df, kind) ==
    IF kind = "team"
    THEN IF HasCol(df, "Team ID") THEN <<"Team ID">>
         ELSE IF HasCol(df, "Squad") THEN <<"Squad">>
         ELSE <<>>
    ELSE IF kind = "player"
    THEN LET keys == IfCol(df, "Player ID") \o IfCol(df, "Team ID")
         IN  IF keys = <<>>
             THEN IfCol(df, "Player") \o IfCol(df, "Squad")
             ELSE keys
    ELSE <<>>

----------------------------------------------------------------------------
\* safe_merge (lines 310-350).

\* The keys present in both tables (lines 329-331).
existing_keys(l, r, keys) ==
    SelectSeq(keys, LAMBDA k : HasCol(l, k) /\ HasCol(r, k))

\* drop_duplicates(subset=keys, keep="last"): the last row of every key
\* combination is kept.
drop_duplicates_last(df, keys) ==
    LET last(i) == \A j \in (i + 1)..Len(df.rows) : KeyOf(df, j, keys) # KeyOf(df, i, keys)
        kept    == SelectSeq(Indices(Len(df.rows)), last)
    IN  [cols |-> df.cols, rows |-> [k \in 1..Len(kept) |-> df.rows[kept[k]]]]

\* DataFrame.drop_duplicates(subset=keys): the first row of every key
\* combination is kept, in the original order (line 336).
drop_duplicates(df, keys) ==
    LET first(i) == \A j \in 1..(i - 1) : KeyOf(df, j, keys) # KeyOf(df, i, keys)
        kept     == SelectSeq(Indices(Len(df.rows)), first)
    IN  [cols |-> df.cols, rows |-> [k \in 1..Len(kept) |-> df.rows[kept[k]]]]

\* DataFrame.merge(right, on=keys, suffixes=sfx, how=how), for how "outer"
\* and "left".  The key columns stay where the left table has them, the right
\* table's other columns follow; a column name the two sides share outside the
\* keys gets the side's suffix.  Every left row is joined with every right row
\* of the same key (with NA when there is none), and under "outer" the right
\* rows whose key the left table does not have follow.  The order of the rows
\* differs between pandas versions; nothing below depends on it.
merge_how(l, r, keys, sfx, how) ==
    LET isKey(c)  == InSeq(c, keys)
        rother    == SelectSeq(Indices(Len(r.cols)), LAMBDA j : ~isKey(r.cols[j]))
        lname(i)  == IF ~isKey(l.cols[i]) /\ HasCol(r, l.cols[i])
                     THEN l.cols[i] \o sfx[1] ELSE l.cols[i]
        rname(j)  == IF HasCol(l, r.cols[j]) THEN r.cols[j] \o sfx[2] ELSE r.cols[j]
        rvals(j)  == [k \in 1..Len(rother) |-> r.rows[j][rother[k]]]
        rblank    == [k \in 1..Len(rother) |-> NA]
        matches(i) == SelectSeq(Indices(Len(r.rows)),
                                LAMBDA j : KeyOf(r, j, keys) = KeyOf(l, i, keys))
        joined(i) == IF matches(i) = <<>>
                     THEN << l.rows[i] \o rblank >>
                     ELSE [m \in 1..Len(matches(i)) |-> l.rows[i] \o rvals(matches(i)[m])]
        lonly(j)  == [i \in 1..Len(l.cols) |->
                        IF isKey(l.cols[i]) THEN r.rows[j][ColIdx(r, l.cols[i])] ELSE NA]
        unmatched == IF how = "outer"
                     THEN SelectSeq(Indices(Len(r.rows)),
                            LAMBDA j : \A i \in 1..Len(l.rows) :
                                          KeyOf(l, i, keys) # KeyOf(r, j, keys))
                     ELSE <<>>
    IN  [cols |-> [i \in 1..Len(l.cols) |-> lname(i)]
                    \o [k \in 1..Len(rother) |-> rname(rother[k])],
         rows |-> Flatten([i \in 1..Len(l.rows) |-> joined(i)])
                    \o [u \in 1..Len(unmatched) |-> lonly(unmatched[u]) \o rvals(unmatched[u])]]

\* The merge of line 339 with how="left" in place of how="outer".
merge_left(l, r, keys, sfx) == merge_how(l, r, keys, sfx, "left")

\* left_df.merge(right_deduped, on=existing_keys, suffixes=suffixes,
\* how="outer") (lines 339-344).
merge_outer(l, r, keys, sfx) == merge_how(l, r, keys, sfx, "outer")

\* The absolute row threshold of the warning (line 347).
RowThreshold == 100
\* The growth factor 1.5 of the warning, as the fraction 3/2 (line 347).
GrowthNum == 3
GrowthDen == 2

\* The condition of line 347 with "or" in place of "and".
row_warning_either(nleft, nmerged) ==
    nmerged * GrowthDen > nleft * GrowthNum \/ nmerged > RowThreshold

\* len(merged) > len(left_df) * 1.5 and len(merged) > 100 (line 347)
row_warning(nleft, nmerged) ==
    nmerged * GrowthDen > nleft * GrowthNum /\ nmerged > RowThreshold

\* The default suffixes of safe_merge (line 314).
Suffixes == <<"", "_duplicate">>

\* safe_merge without the early return of lines 323-324.
safe_merge_unguarded(l, r, keys) ==
    IF IsEmpty(l) THEN [out |-> r, warned |-> FALSE]
    ELSE IF keys = <<>> THEN [out |-> l, warned |-> FALSE]
    ELSE LET ek == existing_keys(l, r, keys) IN
         IF ek = <<>> THEN [out |-> l, warned |-> FALSE]
         ELSE LET merged == merge_outer(l, drop_duplicates(r, ek), ek, Suffixes)
              IN  [out |-> merged,
                   warned |-> row_warning(NRows(l), NRows(merged))]

\* safe_merge: the table returned and whether the warning line was printed.
safe_merge(l, r, keys) ==
    IF IsEmpty(l) THEN [out |-> r, warned |-> FALSE]
    ELSE IF IsEmpty(r) THEN [out |-> l, warned |-> FALSE]
    ELSE IF keys = <<>> THEN [out |-> l, warned |-> FALSE]
    ELSE LET ek == existing_keys(l, r, keys) IN
         IF ek = <<>> THEN [out |-> l, warned |-> FALSE]
         ELSE LET merged == merge_outer(l, drop_duplicates(r, ek), ek, Suffixes)
              IN  [out |-> merged,
                   warned |-> row_warning(NRows(l), NRows(merged))]

----------------------------------------------------------------------------
\* add_team_id_to_player_df (lines 258-277).  rows_data is a sequence of
\* pairs <<player_id, team_id>>, NA for None.

\* valid_rows (line 265)
valid_rows(rd) == SelectSeq(rd, LAMBDA r : r[1] # NA)

\* id_map[pid] (line 269): a dict comprehension keeps, for a key that occurs
\* several times, the value of its last occurrence; Series.map gives a
\* missing value for a key the dict does not have (line 272).
id_map_get(vr, pid) ==
    LET hits == { i \in 1..Len(vr) : vr[i][1] = pid /\ vr[i][1] # NA /\ vr[i][2] # NA }
    IN  IF hits = {} THEN NA
        ELSE vr[CHOOSE i \in hits : \A j \in hits : j <= i][2]

\* add_team_id_to_player_df assigning by position whatever the counts, with
\* a missing value for the rows beyond the valid entries.
add_team_id_positional(df, rd) ==
    IF rd = <<>> THEN df
    ELSE LET vr == valid_rows(rd)
         IN  SetColumn(df, "Team ID",
                 [i \in 1..NRows(df) |-> IF i <= Len(vr) THEN vr[i][2] ELSE NA])

\* add_team_id_to_player_df looking every row up in id_map whatever the counts.
add_team_id_by_lookup(df, rd) ==
    IF rd = <<>> THEN df
    ELSE LET vr == valid_rows(rd)
         IN  IF HasCol(df, "Player ID")
             THEN SetColumn(df, "Team ID",
                     [i \in 1..NRows(df) |-> id_map_get(vr, Cell(df, i, "Player ID"))])
             ELSE df

add_team_id_to_player_df(df, rd) ==
    IF rd = <<>> THEN df
    ELSE LET vr == valid_rows(rd)
         IN  IF Len(vr) # NRows(df)
             THEN IF HasCol(df, "Player ID")
                  THEN SetColumn(df, "Team ID",
                          [i \in 1..NRows(df) |-> id_map_get(vr, Cell(df, i, "Player ID"))])
                  ELSE df
             ELSE SetColumn(df, "Team ID", [i \in 1..NRows(df) |-> vr[i][2]])

----------------------------------------------------------------------------
\* The tables the scraper hands to the merge loop.  A row is made from an
\* entity (a team, or a player at a team); the statistic cell of row j of
\* statistic group c is the tag "c<c>r<j>", so every statistic cell is
\* distinct and can be traced through a merge.

Teams == << [id |-> "t1", name |-> "Arsenal"], [id |-> "t2", name |-> "Chelsea"] >>

\* One player who played for both teams in the season.
Players == << [pid |-> "p1", player |-> "Kane", tid |-> "t1", squad |-> "Arsenal"],
              [pid |-> "p1", player |-> "Kane", tid |-> "t2", squad |-> "Chelsea"] >>

StatCol(c) == "Stat" \o ToString(c)
StatVal(c, j) == "c" \o ToString(c) \o "r" \o ToString(j)

\* The entities of the rows of a table, in row order.
EntSeqs == UNION { [1..n -> 1..2] : n \in 0..MaxRows }

\* The column layouts: "min" is the table of the specification's example,
\* "ids" a table whose ID columns were appended by add_ids_to_dataframe and
\* add_team_id_to_player_df, "noids" one whose identifier map was empty,
\* "stat" a table with no key column at all.
LayoutCols(kind, layout, c) ==
    IF kind = "team"
    THEN CASE layout = "min"   -> <<"Team ID", StatCol(c)>>
           [] layout = "ids"   -> <<"Squad", StatCol(c), "Team ID">>
           [] layout = "noids" -> <<"Squad", StatCol(c)>>
           [] OTHER            -> <<StatCol(c)>>
    ELSE CASE layout = "min"   -> <<"Player ID", "Team ID", StatCol(c)>>
           [] layout = "ids"   -> <<"Player", "Squad", StatCol(c), "Player ID", "Team ID">>
           [] layout = "noids" -> <<"Player", "Squad", StatCol(c)>>
           [] OTHER            -> <<StatCol(c)>>

EntCell(kind, e, col, c, j) ==
    IF kind = "team"
    THEN CASE col = "Team ID" -> Teams[e].id
           [] col = "Squad"   -> Teams[e].name
           [] OTHER           -> StatVal(c, j)
    ELSE CASE col = "Player ID" -> Players[e].pid
           [] col = "Player"    -> Players[e].player
           [] col = "Team ID"   -> Players[e].tid
           [] col = "Squad"     -> Players[e].squad
           [] OTHER             -> StatVal(c, j)

MakeTable(kind, layout, c, es) ==
    LET cs == LayoutCols(kind, layout, c)
    IN  [cols |-> cs,
         rows |-> [j \in 1..Len(es) |->
                     [i \in 1..Len(cs) |-> EntCell(kind, es[j], cs[i], c, j)]]]

\* The tables of statistic group c for one side of the merge loop.
CatTables(kind, c) ==
    { MakeTable(kind, layout, c, es) : layout \in {"min", "ids"}, es \in EntSeqs }

----------------------------------------------------------------------------
\* Values of the variables a specification does not use.

MainIdle == /\ side = "none" /\ idx = 0 /\ cats = <<>> /\ acc = EmptyDF
            /\ usedKeys = <<>> /\ warnings = 0

CallIdle == /\ called = "" /\ left_df = EmptyDF /\ right_df = EmptyDF
            /\ merge_keys = <<>> /\ data_type = "" /\ rows_data = <<>>
            /\ ret = EmptyDF

ScIdle == sc = [pc |-> "idle"]

Durations == 0..MaxDur
FetchDurations == 1..MaxDur

----------------------------------------------------------------------------
\* The merge loop of __main__ (lines 480-506).  The three accumulators never
\* meet, so a behaviour follows one of them: Init picks the side, and every
\* step is the part of the loop body that belongs to that side.

Init ==
    /\ side \in {"squad", "opponent", "player"}
    /\ idx = 0
    /\ cats = <<>>
    /\ acc = EmptyDF
    /\ usedKeys = <<>>
    /\ warnings = 0
    /\ CallIdle
    /\ ScIdle

\* if not temp.empty: merge_keys = get_merge_keys(temp, kind);
\*                    acc = safe_merge(acc, temp, merge_keys)
MergeInto(kind, temp) ==
    /\ IF ~IsEmpty(temp)
       THEN LET keys == get_merge_keys(temp, kind)
                r    == safe_merge(acc, temp, keys)
            IN  /\ acc' = r.out
                /\ usedKeys' = keys
                /\ warnings' = warnings + (IF r.warned THEN 1 ELSE 0)
       ELSE UNCHANGED <<acc, usedKeys, warnings>>
    /\ idx' = idx + 1
    /\ cats' = Append(cats, temp)
    /\ UNCHANGED <<side, callVars, sc>>

\* Lines 489-492.
MergeTeamFor ==
    /\ side = "squad" /\ idx < MaxCats
    /\ \E temp \in CatTables("team", idx + 1) : MergeInto("team", temp)

\* Lines 495-500.
MergeTeamAgainst ==
    /\ side = "opponent" /\ idx < MaxCats
    /\ \E temp \in CatTables("team", idx + 1) : MergeInto("team", temp)

\* Lines 503-506.
MergePlayer ==
    /\ side = "player" /\ idx < MaxCats
    /\ \E temp \in CatTables("player", idx + 1) : MergeInto("player", temp)

Next == MergeTeamFor \/ MergeTeamAgainst \/ MergePlayer

Spec == Init /\ [][Next]_vars

----------------------------------------------------------------------------
\* Claims about the merge loop (Spec).

TeamIdsOf(df) == { Cell(df, i, "Team ID") : i \in 1..NRows(df) }

\* The hypothesis of C1: team tables, each with a 'Team ID' column and no
\* Team ID twice, and no column name other than 'Team ID' in two categories.
C1Pre ==
    /\ side \in {"squad", "opponent"}
    /\ \A c \in 1..Len(cats) :
          /\ HasCol(cats[c], "Team ID")
          /\ \A i, j \in 1..NRows(cats[c]) :
                i # j => Cell(cats[c], i, "Team ID") # Cell(cats[c], j, "Team ID")
    /\ \A c, d \in 1..Len(cats) : c # d =>
          \A i \in 1..Len(cats[c].cols), j \in 1..Len(cats[d].cols) :
             cats[c].cols[i] # "Team ID" => cats[c].cols[i] # cats[d].cols[j]

\* C1: folding team tables that each have a 'Team ID' column, repeat no Team
\* ID and share no other column name through get_merge_keys and safe_merge
\* from an empty accumulator gives exactly one row per Team ID of any
\* category, and that row carries every category's cells for that team, a
\* missing value where the category has no row for the team.
C1_FoldOneRowPerTeam ==
    C1Pre =>
      LET all == UNION { TeamIdsOf(cats[c]) : c \in 1..Len(cats) } IN
      /\ NRows(acc) = Cardinality(all)
      /\ NRows(acc) > 0 => HasCol(acc, "Team ID")
      /\ TeamIdsOf(acc) = all
      /\ \A r \in 1..NRows(acc), c \in 1..Len(cats) :
            \A n \in 1..Len(cats[c].cols) :
               LET name == cats[c].cols[n]
                   same == { j \in 1..NRows(cats[c]) :
                               Cell(cats[c], j, "Team ID") = Cell(acc, r, "Team ID") }
               IN  name # "Team ID" =>
                     /\ same # {} => \A j \in same : Cell(acc, r, name) = cats[c].rows[j][n]
                     /\ same = {} => Cell(acc, r, name) = NA

\* The example of C1: {Team ID: t1, Stat1} then {Team ID: t1, Stat2} give one
\* row with both statistics.
C1_Witness ==
    /\ C1Pre
    /\ idx = 2
    /\ cats[1] = [cols |-> <<"Team ID", "Stat1">>, rows |-> << <<"t1", "c1r1">> >>]
    /\ cats[2] = [cols |-> <<"Team ID", "Stat2">>, rows |-> << <<"t1", "c2r1">> >>]
    /\ acc = [cols |-> <<"Team ID", "Stat1", "Stat2">>,
              rows |-> << <<"t1", "c1r1", "c2r1">> >>]

\* The merge keys of the latest merge that are columns of the accumulator.
KeysInAcc == SelectSeq(usedKeys, LAMBDA k : HasCol(acc, k))

\* C2: after merging any sequence of non-empty tables into an empty
\* accumulator, no two rows of the accumulator share the values of the merge
\* keys used.
C2_NoDuplicateKeyRows ==
    (\A c \in 1..Len(cats) : ~IsEmpty(cats[c])) /\ KeysInAcc # <<>> =>
       \A i, j \in 1..NRows(acc) :
          i # j => KeyOf(acc, i, KeysInAcc) # KeyOf(acc, j, KeysInAcc)

----------------------------------------------------------------------------
\* get_merge_keys on every order of every subset of the four key columns.

KeyCols == {"Team ID", "Squad", "Player ID", "Player"}

KeyLayouts ==
    { s \in UNION { [1..n -> KeyCols] : n \in 0..4 } :
        \A i, j \in 1..Len(s) : i # j => s[i] # s[j] }

InitKeys ==
    /\ MainIdle
    /\ ScIdle
    /\ called = ""
    /\ left_df = EmptyDF
    /\ right_df \in { [cols |-> s, rows |-> <<>>] : s \in KeyLayouts }
    /\ merge_keys = <<>>
    /\ data_type \in {"team", "player", "other"}
    /\ rows_data = <<>>
    /\ ret = <<>>

CallGetMergeKeys ==
    /\ called = ""
    /\ called' = "get_merge_keys"
    /\ ret' = get_merge_keys(right_df, data_type)
    /\ UNCHANGED <<mainVars, left_df, right_df, merge_keys, data_type, rows_data, sc>>

NextKeys == CallGetMergeKeys

SpecKeys == InitKeys /\ [][NextKeys]_vars

\* The keys of s that are columns of df, in the order of s.
PresentOf(df, s) == SelectSeq(s, LAMBDA c : HasCol(df, c))

\* C3: get_merge_keys returns, for kind 'team', ['Team ID'] if present, else
\* ['Squad'] if present, else []; for kind 'player', the present ones of
\* ['Player ID', 'Team ID'] in that order, and only if neither is present the
\* present ones of ['Player', 'Squad'] in that order.
C3_MergeKeysTable ==
    called = "get_merge_keys" =>
      LET T == HasCol(right_df, "Team ID")
          S == HasCol(right_df, "Squad")
          I == HasCol(right_df, "Player ID")
      IN
      /\ data_type = "team" =>
            /\ T => ret = <<"Team ID">>
            /\ ~T /\ S => ret = <<"Squad">>
            /\ ~T /\ ~S => ret = <<>>
      /\ data_type = "player" =>
            /\ I \/ T => ret = PresentOf(right_df, <<"Player ID", "Team ID">>)
            /\ ~I /\ ~T => ret = PresentOf(right_df, <<"Player", "Squad">>)

\* A team table with both 'Team ID' and 'Squad', the name column first.
C3_Witness ==
    /\ called = "get_merge_keys"
    /\ data_type = "team"
    /\ right_df.cols = <<"Squad", "Team ID">>
    /\ ret = <<"Team ID">>

----------------------------------------------------------------------------
\* safe_merge as a function: one call on an accumulator, a new table and a
\* key list drawn from bounded sets.

MergeLayouts ==
    { <<"team", "min">>, <<"team", "ids">>, <<"team", "noids">>, <<"team", "stat">>,
      <<"player", "ids">>, <<"player", "noids">> }

\* The accumulator is a table of statistic group 1, the new table one of group 2.
MergeTables(c) ==
    { MakeTable(kl[1], kl[2], c, es) : kl \in MergeLayouts, es \in EntSeqs }
      \cup {EmptyDF}

\* The key lists get_merge_keys can return, and the empty one.
KeyLists ==
    { <<>>, <<"Team ID">>, <<"Squad">>, <<"Player ID", "Team ID">>, <<"Player", "Squad">> }

InitSafeMerge ==
    /\ MainIdle
    /\ ScIdle
    /\ called = ""
    /\ left_df \in MergeTables(1)
    /\ right_df \in MergeTables(2)
    /\ merge_keys \in KeyLists
    /\ data_type = ""
    /\ rows_data = <<>>
    /\ ret = EmptyDF

CallSafeMerge ==
    /\ called = ""
    /\ called' = "safe_merge"
    /\ LET r == safe_merge(left_df, right_df, merge_keys)
       IN  /\ ret' = r.out
           /\ warnings' = warnings + (IF r.warned THEN 1 ELSE 0)
    /\ UNCHANGED <<side, idx, cats, acc, usedKeys,
                   left_df, right_df, merge_keys, data_type, rows_data, sc>>

NextSafeMerge == CallSafeMerge

SpecSafeMerge == InitSafeMerge /\ [][NextSafeMerge]_vars

\* The key columns both arguments of the call have, in key-list order.
CommonKeys ==
    SelectSeq(merge_keys, LAMBDA k : HasCol(left_df, k) /\ HasCol(right_df, k))

\* The row of right_df that comes first among those with the key of row j.
FirstWithKey(j) ==
    CHOOSE f \in 1..j :
        /\ KeyOf(right_df, f, CommonKeys) = KeyOf(right_df, j, CommonKeys)
        /\ \A g \in 1..(f - 1) :
              KeyOf(right_df, g, CommonKeys) # KeyOf(right_df, j, CommonKeys)

\* The cells of row j of right_df outside the key columns, in column order.
OtherCells(j) ==
    LET other == SelectSeq(Indices(Len(right_df.cols)),
                           LAMBDA i : ~InSeq(right_df.cols[i], CommonKeys))
    IN  [k \in 1..Len(other) |-> right_df.rows[j][other[k]]]

\* The cells of row m of the result that come from right_df's other columns.
Contribution(m) == SubSeq(ret.rows[m], Len(left_df.cols) + 1, Len(ret.rows[m]))

\* C4: in safe_merge with a non-empty accumulator, a non-empty new table and
\* a key column present in both, of the rows of the new table with one key
\* combination only the first contributes: every result row with that key
\* carries the first row's cells, and the statistic cell of a later row
\* appears nowhere in the result.
C4_FirstDuplicateWins ==
    called = "safe_merge" /\ ~IsEmpty(left_df) /\ ~IsEmpty(right_df)
      /\ CommonKeys # <<>> =>
        /\ \A j \in 1..NRows(right_df) :
              /\ \E m \in 1..NRows(ret) :
                    KeyOf(ret, m, CommonKeys) = KeyOf(right_df, j, CommonKeys)
              /\ \A m \in 1..NRows(ret) :
                    KeyOf(ret, m, CommonKeys) = KeyOf(right_df, j, CommonKeys)
                      => Contribution(m) = OtherCells(FirstWithKey(j))
              /\ FirstWithKey(j) # j =>
                    \A m \in 1..NRows(ret), i \in 1..Len(ret.cols) :
                       ret.rows[m][i] # Cell(right_df, j, StatCol(2))

\* Two rows of the new table share a key the accumulator has; the result row
\* carries the statistic of the first.
C4_Witness ==
    /\ called = "safe_merge"
    /\ merge_keys = <<"Team ID">>
    /\ left_df = [cols |-> <<"Team ID", "Stat1">>, rows |-> << <<"t1", "c1r1">> >>]
    /\ right_df = [cols |-> <<"Team ID", "Stat2">>,
                   rows |-> << <<"t1", "c2r1">>, <<"t1", "c2r2">> >>]
    /\ ret = [cols |-> <<"Team ID", "Stat1", "Stat2">>,
              rows |-> << <<"t1", "c1r1", "c2r1">> >>]

\* C8: safe_merge returns the new table when the accumulator is empty;
\* otherwise the accumulator when the new table is empty; otherwise the
\* accumulator when the key list is empty or no key is a column of both.
C8_DegenerateCases ==
    called = "safe_merge" =>
      /\ IsEmpty(left_df) => ret = right_df
      /\ ~IsEmpty(left_df) /\ IsEmpty(right_df) => ret = left_df
      /\ ~IsEmpty(left_df) /\ ~IsEmpty(right_df)
            /\ (merge_keys = <<>> \/ CommonKeys = <<>>) => ret = left_df

\* An empty new table that has columns is merged into a non-empty
\* accumulator with which it shares the key, and the accumulator comes back.
C8_Witness ==
    /\ called = "safe_merge"
    /\ ~IsEmpty(left_df)
    /\ NRows(right_df) = 0 /\ HasCol(right_df, "Stat2")
    /\ CommonKeys # <<>>
    /\ ret = left_df

----------------------------------------------------------------------------
\* safe_merge on tables with enough rows for the warning of line 347: team
\* tables with the single column 'Team ID' and the identifiers lo..hi, the
\* first identifier once more at the end when rep is set.

RangeTable(lo, hi, rep) ==
    LET n == IF hi >= lo THEN hi - lo + 1 ELSE 0
        ids == [i \in 1..n |-> << ToString(lo + i - 1) >>]
    IN  [cols |-> <<"Team ID">>,
         rows |-> IF rep /\ n > 0 THEN Append(ids, ids[1]) ELSE ids]

\* Row counts of the accumulator around the factor 1.5 and the threshold 100.
WarnLeftSizes == {0, 50, 67, 68, 100}
\* First and last identifier of the new table.
WarnRightFrom == {1, 51}
WarnRightTo == {0, 80, 100, 101, 102, 150, 151}

InitWarn ==
    /\ MainIdle
    /\ ScIdle
    /\ called = ""
    /\ left_df \in { RangeTable(1, n, FALSE) : n \in WarnLeftSizes }
    /\ right_df \in { RangeTable(lo, hi, rep) :
                         lo \in WarnRightFrom, hi \in WarnRightTo, rep \in BOOLEAN }
    /\ merge_keys \in { <<"Team ID">>, <<"Squad">> }
    /\ data_type = ""
    /\ rows_data = <<>>
    /\ ret = EmptyDF

NextWarn == CallSafeMerge

SpecWarn == InitWarn /\ [][NextWarn]_vars

\* Whether the call joined the two tables (line 339 was reached).
Joined == ~IsEmpty(left_df) /\ ~IsEmpty(right_df) /\ CommonKeys # <<>>

\* C5 as stated: a call of safe_merge prints the warning exactly once if and
\* only if the result has more than 1.5 times the accumulator's rows and
\* more than 100 rows, and prints nothing otherwise.
C5_WarningIffGrowth ==
    called = "safe_merge" =>
      /\ warnings \in {0, 1}
      /\ warnings = 1 <=>
            (2 * NRows(ret) > 3 * NRows(left_df) /\ NRows(ret) > 100)

\* C5 amended: when the accumulator and the new table are non-empty and
\* share a key column, the warning is printed exactly once if and only if
\* the merged table has more than 1.5 times the accumulator's rows and more
\* than 100 rows, and the merged table (one row per Team ID of either table)
\* is returned either way; in the degenerate cases nothing is printed.
C5_WarningIffGrowthOfJoin ==
    called = "safe_merge" =>
      /\ warnings \in {0, 1}
      /\ Joined =>
            /\ warnings = 1 <=>
                  (2 * NRows(ret) > 3 * NRows(left_df) /\ NRows(ret) > 100)
            /\ TeamIdsOf(ret) = TeamIdsOf(left_df) \cup TeamIdsOf(right_df)
            /\ NRows(ret) = Cardinality(TeamIdsOf(ret))
      /\ ~Joined => warnings = 0

\* An accumulator of 67 rows grows to 101 rows and the warning is printed.
C5_Witness ==
    /\ called = "safe_merge"
    /\ Joined
    /\ NRows(left_df) = 67
    /\ NRows(ret) = 101
    /\ warnings = 1

----------------------------------------------------------------------------
\* add_team_id_to_player_df as a function: one call on a player table (in
\* left_df) and an association list drawn from bounded sets.

\* The entries extract_player_team_ids_from_soup can append (line 253): a
\* row with no player link, a player with a team, the same player with
\* another team, another player, and a player whose team link is missing.
AssocEntries ==
    { <<NA, NA>>, <<"p1", "t1">>, <<"p1", "t2">>, <<"p2", "t1">>, <<"p2", NA>> }

AssocLists == UNION { [1..n -> AssocEntries] : n \in 0..MaxAssoc }

\* player_df after add_ids_to_dataframe (line 440): with a 'Player ID'
\* column, or without one when the identifier map was empty.
PlayerName(pid) == IF pid = "p1" THEN "Kane" ELSE "Saka"

PlayerTables ==
    { [cols |-> <<"Player", "Player ID">>,
       rows |-> [i \in 1..Len(ps) |-> << PlayerName(ps[i]), ps[i] >>]] :
         ps \in UNION { [1..n -> {"p1", "p2"}] : n \in 0..MaxAssoc } }
    \cup
    { [cols |-> <<"Player">>, rows |-> [i \in 1..n |-> << "Kane" >>]] :
         n \in 0..MaxAssoc }

InitEnrich ==
    /\ MainIdle
    /\ ScIdle
    /\ called = ""
    /\ left_df \in PlayerTables
    /\ right_df = EmptyDF
    /\ merge_keys = <<>>
    /\ data_type = ""
    /\ rows_data \in AssocLists
    /\ ret = EmptyDF

CallAddTeamId ==
    /\ called = ""
    /\ called' = "add_team_id_to_player_df"
    /\ ret' = add_team_id_to_player_df(left_df, rows_data)
    /\ UNCHANGED <<mainVars, left_df, right_df, merge_keys, data_type, rows_data, sc>>

NextEnrich == CallAddTeamId

SpecEnrich == InitEnrich /\ [][NextEnrich]_vars

\* The positions of rows_data whose entry has a player identifier.
ValidAt == { k \in 1..Len(rows_data) : rows_data[k][1] # NA }

\* The position in rows_data of the i-th entry with a player identifier.
NthValid(i) ==
    CHOOSE k \in ValidAt : Cardinality({ h \in ValidAt : h <= k }) = i

\* C6: when as many association entries have a player identifier as the
\* table has rows, the 'Team ID' of row i is the team identifier (possibly
\* missing) of the i-th such entry, whatever the table's 'Player ID' is.
C6_PositionalTeamId ==
    called = "add_team_id_to_player_df" /\ rows_data # <<>>
      /\ Cardinality(ValidAt) = NRows(left_df) =>
        /\ HasCol(ret, "Team ID")
        /\ NRows(ret) = NRows(left_df)
        /\ \A i \in 1..NRows(ret) :
              Cell(ret, i, "Team ID") = rows_data[NthValid(i)][2]

\* One player in two rows with different teams, between them another
\* player: each row gets its own team.
C6_Witness ==
    /\ called = "add_team_id_to_player_df"
    /\ rows_data = << <<"p1", "t1">>, <<"p2", "t1">>, <<"p1", "t2">> >>
    /\ left_df.rows = << <<"Kane", "p1">>, <<"Saka", "p2">>, <<"Kane", "p1">> >>
    /\ ret.cols = <<"Player", "Player ID", "Team ID">>
    /\ ret.rows = << <<"Kane", "p1", "t1">>, <<"Saka", "p2", "t1">>,
                     <<"Kane", "p1", "t2">> >>

\* C7: when the association list is not empty, the number of its entries
\* with a player identifier differs from the row count and the table has a
\* 'Player ID' column, every row's 'Team ID' is the team of an association
\* entry that has that row's 'Player ID' and a team identifier, the same
\* for all rows of one 'Player ID', and missing when there is no such entry.
C7_LookupTeamId ==
    called = "add_team_id_to_player_df" /\ rows_data # <<>>
      /\ Cardinality(ValidAt) # NRows(left_df) /\ HasCol(left_df, "Player ID") =>
        /\ HasCol(ret, "Team ID")
        /\ NRows(ret) = NRows(left_df)
        /\ \A i \in 1..NRows(ret) :
              LET pid  == Cell(left_df, i, "Player ID")
                  have == { k \in 1..Len(rows_data) :
                              /\ rows_data[k][1] = pid /\ pid # NA
                              /\ rows_data[k][2] # NA }
              IN  /\ have = {} => Cell(ret, i, "Team ID") = NA
                  /\ have # {} =>
                        \E k \in have : Cell(ret, i, "Team ID") = rows_data[k][2]
                  /\ \A j \in 1..NRows(ret) :
                        Cell(left_df, j, "Player ID") = pid =>
                           Cell(ret, j, "Team ID") = Cell(ret, i, "Team ID")

\* Three rows and two valid entries: the player of the map gets the team,
\* the player whose entry has no team gets a missing value.
C7_Witness ==
    /\ called = "add_team_id_to_player_df"
    /\ NRows(left_df) = 3
    /\ rows_data = << <<"p2", NA>>, <<"p1", "t2">> >>
    /\ left_df.rows = << <<"Saka", "p2">>, <<"Kane", "p1">>, <<"Kane", "p1">> >>
    /\ ret.rows = << <<"Saka", "p2", NA>>, <<"Kane", "p1", "t2">>,
                     <<"Kane", "p1", "t2">> >>

\* C11: in the fallback path (the number of entries with a player
\* identifier differs from the row count, the table has a 'Player ID'
\* column), when a player identifier occurs in several association entries
\* with different team identifiers, every row with that identifier gets the
\* team of the first such entry in document order.
C11_FirstOccurrenceWins ==
    called = "add_team_id_to_player_df" /\ rows_data # <<>>
      /\ Cardinality(ValidAt) # NRows(left_df) /\ HasCol(left_df, "Player ID") =>
        \A i \in 1..NRows(left_df) :
           LET pid  == Cell(left_df, i, "Player ID")
               have == { k \in 1..Len(rows_data) :
                           /\ rows_data[k][1] = pid /\ pid # NA
                           /\ rows_data[k][2] # NA }
           IN  (\E k, h \in have : rows_data[k][2] # rows_data[h][2]) =>
                  Cell(ret, i, "Team ID") =
                     rows_data[CHOOSE k \in have : \A h \in have : k <= h][2]

----------------------------------------------------------------------------
\* FBrefScraperWithIDs.scrape_all_stats_with_ids (lines 445-459) calling
\* scrape_stats_with_ids (lines 373-443).  sc is the state of one run:
\*   pc          the position in the two methods
\*   now         time.time()
\*   is_big5     "big 5 combined" in league.lower()
\*   year_ok     year in valid_seasons
\*   cat         the number of the category being processed
\*   start_time, elapsed, slept    the driver's timing of the category
\*   last_fetch, prev_fetch        start times of the latest two _get_soup
\*                                 calls, -1 for none
\*   squad, opp, player            squad_df, opp_df, player_df of the call:
\*                                 "unset", "empty" or "parsed"
\*   stored      len(return_package)
\*   exc, exc_at the exception that left the run, and the table whose
\*               parsing raised it
\* get_valid_seasons, _get_soup and pd.read_html are outside the file:
\* get_valid_seasons takes any time in Durations, a page fetch any time in
\* FetchDurations, and _get_soup and read_html may raise.

InitScrape ==
    /\ MainIdle
    /\ CallIdle
    /\ \E big \in BOOLEAN, ok \in BOOLEAN :
          sc = [pc |-> "loop", now |-> 0, is_big5 |-> big, year_ok |-> ok,
                cat |-> 0, start_time |-> 0, elapsed |-> 0, slept |-> 0,
                last_fetch |-> -1, prev_fetch |-> -1,
                squad |-> "unset", opp |-> "unset", player |-> "unset",
                stored |-> 0, exc |-> "", exc_at |-> ""]

\* raise: the exception leaves scrape_stats_with_ids and, nothing catching
\* it, scrape_all_stats_with_ids.
Raise(e, at) == [sc EXCEPT !.pc = "raised", !.exc = e, !.exc_at = at]

\* soup = self._get_soup(url): the fetch starts now and takes d; it
\* returns the page, or raises a network failure.
GetSoup(d, failed, next) ==
    IF ~failed
    THEN [sc EXCEPT !.pc = next, !.prev_fetch = sc.last_fetch,
                    !.last_fetch = sc.now, !.now = sc.now + d]
    ELSE [Raise("network", "") EXCEPT !.prev_fetch = sc.last_fetch,
                                      !.last_fetch = sc.now, !.now = sc.now + d]

\* pd.read_html(StringIO(str(tag)))[0] if tag else pd.DataFrame(), followed
\* by the ID extraction, which does not raise.
ReadTable(field, outcome, next) ==
    CASE outcome = "absent" -> [sc EXCEPT !.pc = next, ![field] = "empty"]
      [] outcome = "parsed" -> [sc EXCEPT !.pc = next, ![field] = "parsed"]
      [] OTHER              -> Raise("parser", field)

TableOutcomes == {"absent", "parsed", "raise"}

\* for stat_category in stats_categories: start_time = time.time()
\* (lines 451-453).
NextCategory ==
    /\ sc.pc = "loop" /\ sc.cat < NumCats
    /\ sc' = [sc EXCEPT !.pc = "validate", !.cat = sc.cat + 1,
                        !.start_time = sc.now,
                        !.squad = "unset", !.opp = "unset", !.player = "unset"]
    /\ UNCHANGED <<mainVars, callVars>>

\* return return_package (line 459).
ReturnPackage ==
    /\ sc.pc = "loop" /\ sc.cat = NumCats
    /\ sc' = [sc EXCEPT !.pc = "done"]
    /\ UNCHANGED <<mainVars, callVars>>

\* Lines 381-386.
Validate ==
    /\ sc.pc = "validate"
    /\ \E d \in Durations :
          sc' = IF sc.year_ok
                THEN [sc EXCEPT !.pc = "fetch", !.now = sc.now + d]
                ELSE [Raise("ValueError", "") EXCEPT !.now = sc.now + d]
    /\ UNCHANGED <<mainVars, callVars>>

\* Lines 388-398.
FetchStats ==
    /\ sc.pc = "fetch"
    /\ \E d \in FetchDurations, failed \in BOOLEAN : sc' = GetSoup(d, failed, "squad")
    /\ UNCHANGED <<mainVars, callVars>>

\* Lines 400-410.
ParseSquad ==
    /\ sc.pc = "squad"
    /\ \E o \in TableOutcomes : sc' = ReadTable("squad", o, "opp")
    /\ UNCHANGED <<mainVars, callVars>>

\* Lines 412-420, and the branch of line 423.
ParseOpp ==
    /\ sc.pc = "opp"
    /\ \E o \in TableOutcomes :
          sc' = ReadTable("opp", o, IF sc.is_big5 THEN "fetch_players" ELSE "player")
    /\ UNCHANGED <<mainVars, callVars>>

\* Lines 423-428.
FetchPlayers ==
    /\ sc.pc = "fetch_players"
    /\ \E d \in FetchDurations, failed \in BOOLEAN : sc' = GetSoup(d, failed, "player")
    /\ UNCHANGED <<mainVars, callVars>>

\* Lines 430-443.
ParsePlayer ==
    /\ sc.pc = "player"
    /\ \E o \in TableOutcomes : sc' = ReadTable("player", o, "returned")
    /\ UNCHANGED <<mainVars, callVars>>

\* elapsed = time.time() - start_time; sleep the remainder;
\* return_package[stat_category] = stats (lines 454-457).
StoreStats ==
    /\ sc.pc = "returned"
    /\ LET elapsed == sc.now - sc.start_time
           sleep   == IF elapsed < WaitTime THEN WaitTime - elapsed ELSE 0
       IN  sc' = [sc EXCEPT !.pc = "loop", !.elapsed = elapsed, !.slept = sleep,
                           !.now = sc.now + sleep, !.stored = sc.stored + 1]
    /\ UNCHANGED <<mainVars, callVars>>

NextScrape ==
    \/ NextCategory
    \/ ReturnPackage
    \/ Validate
    \/ FetchStats
    \/ ParseSquad
    \/ ParseOpp
    \/ FetchPlayers
    \/ ParsePlayer
    \/ StoreStats

SpecScrape == InitScrape /\ [][NextScrape]_vars

\* C9: when the table parser raises on the markup of a found squad,
\* opponent or player table, the failure does not leave
\* scrape_stats_with_ids: the call returns its three entries, the one of
\* the failing table empty.
C9_ParserFailureGivesEmptyTable ==
    /\ sc.exc # "parser"
    /\ sc.pc = "returned" => {sc.squad, sc.opp, sc.player} \subseteq {"empty", "parsed"}

\* C10: any two consecutive page fetches are at least the wait time apart,
\* and after a category the driver has slept exactly the remainder of the
\* wait time, or not at all when the category took that long.
C10_FetchesWaitTimeApart ==
    /\ sc.prev_fetch >= 0 => sc.last_fetch - sc.prev_fetch >= WaitTime
    /\ sc.pc = "loop" /\ sc.stored > 0 =>
          sc.slept = (IF sc.elapsed < WaitTime THEN WaitTime - sc.elapsed ELSE 0)

=============================================================================
